---- MODULE Spec2Model ----
(***************************************************************************)
(* minishelf: the browser-local store (sql.js database + IndexedDB         *)
(* snapshot), the record repository and the Synchronize component.         *)
(*                                                                         *)
(* Every async function is cut at its await points: one action per run of  *)
(* synchronous code between two awaits.  The three steps of one IndexedDB  *)
(* write (open, export + put, transaction complete) are one action that    *)
(* exports the live database at the moment it runs, as the onsuccess       *)
(* callback does.  localStorage is taken to be available (its try/catch    *)
(* branches are not taken); IndexedDB, the sql.js runtime and the remote   *)
(* fetch may fail.                                                         *)
(***************************************************************************)
EXTENDS Integers, Sequences, FiniteSets, TLC

\* ---- bounds ----
MaxDoc == 2        \* entries in a fetched document
MaxUuid == 1       \* ids crypto.randomUUID() hands out
MaxActs == 3       \* handlers the user starts (calls, clicks, reloads)
MaxTime == 2        \* the clock values new Date() returns
MaxKeywordsLen == 4 \* characters of an input of normalizeKeywords
MaxSearchLen == 3   \* characters of filters.search

\* ---- data ----
\* A Partial<Miniature> / a JSON entry is a record holding only the fields
\* that are present.  name stands for the text columns (game, name, keywords,
\* image_data), which are all stored as `value || ''`; a row is [id, name].
NullEntry == [isNull |-> TRUE]

EntryPool ==
  { [id |-> "a", name |-> "x"],
    [id |-> "b"],
    [name |-> "x"],
    NullEntry }

\* the field sets updateMiniature is called with
NoFields == [f \in {} |-> ""]
UpdatePool == { [name |-> "y"], NoFields }

Has(m, f) == f \in DOMAIN m

Uuid(n) == IF n = 0 THEN "u1" ELSE IF n = 1 THEN "u2" ELSE "u3"

EmptyRows == {}

\* new SQL.Database(): an open database without rows
FreshDb == [open |-> TRUE, rows |-> EmptyRows]
\* db = null
NoDb == [open |-> FALSE, rows |-> EmptyRows]

Ids(rows) == { r.id : r \in rows }

NoSnapshot == [kind |-> "none", rows |-> EmptyRows]
CorruptBlob == [kind |-> "corrupt", rows |-> EmptyRows]

\* arrays of at most n entries
RECURSIVE Arrays(_)
Arrays(n) ==
  IF n = 0 THEN { <<>> }
  ELSE LET shorter == Arrays(n - 1)
       IN shorter \cup { Append(s, e) : s \in { t \in shorter : Len(t) = n - 1 }, e \in EntryPool }

\* the JSON documents the remote source may answer with: a bare array, an
\* object with a miniatures array, an object with a records array, and an
\* object with neither
Docs ==
  [shape : {"array"}, items : Arrays(MaxDoc)]
    \cup { [shape |-> "miniatures", items |-> << [id |-> "b"] >>],
           [shape |-> "records", items |-> << [id |-> "a", name |-> "x"] >>],
           [shape |-> "other", items |-> <<>>] }

NoDoc == [shape |-> "none", items |-> <<>>]

VARIABLES
  SQL,          \* the sql.js runtime is loaded (module variable SQL)
  db,           \* the live database (module variable db); open = FALSE is null
  idb,          \* IndexedDB entry 'sqliteDb': kind none | corrupt | db
  isDirty,      \* localStorage 'isDirty': "null" | "true" | "false"
  syncUrlKey,   \* localStorage 'minishelf_sync_url' ("" when absent)
  url, linked, linking, syncing, error,    \* React state of Synchronize
  toast,        \* the last notification shown
  initPc,       \* initDatabase: start | load | clear | save | done | failed
  savedDb,      \* initDatabase's local savedDb
  ensureThrows, \* how many ensureSchema() calls threw in the initDatabase in flight
  opPc,         \* the repository call in flight: idle | saving
  opResult,     \* how the last repository call ended: none | ok | noop | failed
  syncPc,       \* handleSync: idle | confirm | fetching | replacing | saving
  syncDoc, syncTmp,
  syncTimer,    \* the proxy's abort timer for the fetch of handleSync is armed
  dirtyAtSync,  \* what handleSync read from 'isDirty' in the attempt in flight
  confirmed,    \* the user pressed Confirm in the attempt in flight
  syncBase,     \* list() and acts when the attempt in flight went on to the fetch
  linkPc,       \* handleLink: idle | fetching | inserted
  linkUrl, linkDoc, linkTmp,
  linkTimer,    \* the proxy's abort timer for the fetch of handleLink is armed
  uuids,        \* ids handed out by crypto.randomUUID()
  acts,         \* handlers started by the user
  lastSave,     \* how the last finished saving call ended: none | ok | failed
  listBefore,   \* list() at the last page reload, when the snapshot was current
  synced        \* the rows installed by the synchronize that cleared isDirty

\* the program's variables above
progVars == << SQL, db, idb, isDirty, syncUrlKey, url, linked, linking, syncing,
               error, toast, initPc, savedDb, ensureThrows, opPc, opResult,
               syncPc, syncDoc, syncTimer, syncTmp, dirtyAtSync, syncBase, confirmed, linkPc, linkUrl, linkDoc, linkTimer, linkTmp,
               uuids, acts, lastSave, listBefore, synced >>

\* The record-level view of the repository (every column of a row, the
\* clock) and the pure functions (list filters, keyword normalization) are
\* checked under specifications of their own, on these variables.
VARIABLES
  tbl,          \* table miniatures with every column of every row
  now,          \* the clock read by new Date()
  ret,          \* the last repository call on tbl: what it was and returned
  fin,          \* the arguments of the pure function under check
  fout          \* what it returned

recVars == << tbl, now, ret >>
fnVars == << fin, fout >>
auxVars == << tbl, now, ret, fin, fout >>

vars == << progVars, auxVars >>

uiVars == << url, linked, linking, syncing, error, syncUrlKey, toast >>
initVars == << initPc, savedDb, ensureThrows, SQL >>
opVars == << opPc, opResult >>
syncVars == << syncPc, syncDoc, syncTimer, syncTmp, dirtyAtSync, syncBase, confirmed >>
linkVars == << linkPc, linkUrl, linkDoc, linkTimer, linkTmp >>

\* db.export(): the snapshot holds exactly the rows of the database
Export(d) == [kind |-> "db", rows |-> d.rows]

\* list() with no filter: every row (as a set; the code orders by created_at)
getAllMiniatures(d) == d.rows

\* getDb() throws while db is null
getDbThrows(d) == ~d.open

\* what the store holds, and how many handlers were started, when an attempt
\* goes on to its fetch
BaseAt(d, n) == [rows |-> getAllMiniatures(d), acts |-> n]

\* the handlers run once initDatabase has returned
Ready == initPc = "done" /\ db.open

\* no attempt is past its isDirty check
NoBase == [rows |-> EmptyRows, acts |-> 0]

\* no synchronize has cleared isDirty since it was last set
NoSync == [valid |-> FALSE, rows |-> EmptyRows]

\* the state when the page is loaded for the first time
ProgramInit ==
  /\ SQL = FALSE
  /\ db = NoDb
  /\ idb = NoSnapshot
  /\ isDirty = "null"
  /\ syncUrlKey = ""
  /\ url = ""
  /\ linked = FALSE
  /\ linking = FALSE
  /\ syncing = FALSE
  /\ error = ""
  /\ toast = "none"
  /\ initPc = "start"
  /\ savedDb = NoSnapshot
  /\ ensureThrows = 0
  /\ opPc = "idle"
  /\ opResult = "none"
  /\ syncPc = "idle"
  /\ syncDoc = NoDoc
  /\ syncTmp = NoDb
  /\ syncTimer = FALSE
  /\ dirtyAtSync = "null"
  /\ confirmed = FALSE
  /\ syncBase = NoBase
  /\ linkPc = "idle"
  /\ linkUrl = ""
  /\ linkDoc = NoDoc
  /\ linkTmp = NoDb
  /\ linkTimer = FALSE
  /\ uuids = 0
  /\ acts = 0
  /\ lastSave = "none"
  /\ listBefore = [valid |-> FALSE, rows |-> EmptyRows]
  /\ synced = NoSync

NoCall == [op |-> "none", id |-> "", args |-> NoFields, res |-> "none", saves |-> 0]
NoArgs == [fn |-> "none"]

\* the record-level variables at rest
AuxIdle ==
  /\ tbl = {}
  /\ now = 0
  /\ ret = NoCall
  /\ fin = NoArgs
  /\ fout = NoArgs

Init == ProgramInit /\ AuxIdle

\* ---- pure helpers ----

\* InsertRow with a wrong default for a missing name
InsertRow_NameDefault(st, m) ==
  IF Has(m, "isNull") THEN [st EXCEPT !.ok = FALSE]
  ELSE LET id == IF Has(m, "id") THEN m.id ELSE Uuid(st.uuids)
           n == IF Has(m, "id") THEN st.uuids ELSE st.uuids + 1
           row == [id |-> id, name |-> IF Has(m, "name") THEN m.name ELSE "Unnamed"]
       IN IF id \in Ids(st.rows)
          THEN [ok |-> FALSE, rows |-> st.rows, uuids |-> n]
          ELSE [ok |-> TRUE, rows |-> st.rows \cup {row}, uuids |-> n]

\* One INSERT of the loop / of createMiniature, on st = [ok, rows, uuids]:
\* id is `m.id || crypto.randomUUID()`, name is `m.name || ''`.  It throws on
\* a null entry (reading m.id) and on an id the table holds (PRIMARY KEY).
InsertRow(st, m) ==
  IF Has(m, "isNull") THEN [st EXCEPT !.ok = FALSE]
  ELSE LET id == IF Has(m, "id") THEN m.id ELSE Uuid(st.uuids)
           n == IF Has(m, "id") THEN st.uuids ELSE st.uuids + 1
           row == [id |-> id, name |-> IF Has(m, "name") THEN m.name ELSE ""]
       IN IF id \in Ids(st.rows)
          THEN [ok |-> FALSE, rows |-> st.rows, uuids |-> n]
          ELSE [ok |-> TRUE, rows |-> st.rows \cup {row}, uuids |-> n]

RECURSIVE InsertFrom(_, _, _)
InsertFrom(st, items, i) ==
  IF i > Len(items) \/ ~st.ok THEN st
  ELSE InsertFrom(InsertRow(st, items[i]), items, i + 1)

\* the loop with a try/catch around each INSERT: a failing entry is skipped
RECURSIVE InsertSkipping(_, _, _)
InsertSkipping(st, items, i) ==
  IF i > Len(items) THEN st
  ELSE LET r == InsertRow(st, items[i])
       IN InsertSkipping([r EXCEPT !.ok = TRUE], items, i + 1)

insertMiniatures_SkipBad(dbInstance, miniatures, u) ==
  InsertSkipping([ok |-> TRUE, rows |-> dbInstance.rows, uuids |-> u], miniatures, 1)

\* the for loop over the entries: the rows inserted before a throw stay
insertMiniaturesIntoDatabase(dbInstance, miniatures, u) ==
  InsertFrom([ok |-> TRUE, rows |-> dbInstance.rows, uuids |-> u], miniatures, 1)

\* the entries that make the loop call crypto.randomUUID()
NeedUuids(items) ==
  Cardinality({ i \in 1..Len(items) : ~Has(items[i], "isNull") /\ ~Has(items[i], "id") })

\* A parsed JSON value, by its type; an object by the types of its fields
\* miniatures and records, where it has them.
JsonTypes == { "array", "string", "null" }
JsonData ==
  { [t |-> k, fields |-> NoFields] : k \in JsonTypes }
    \cup { [t |-> "object", fields |-> f] :
             f \in UNION { [K -> JsonTypes] : K \in SUBSET { "miniatures", "records" } } }

\* a shape check that takes whichever field holds an array
ExtractMiniatures_AnyField(data) ==
  IF data.t = "array" \/ (data.t = "object" /\ \E k \in DOMAIN data.fields : data.fields[k] = "array")
    THEN "array"
    ELSE "undefined"

\* Array.isArray(data) ? data : data?.miniatures, by the type of the result
ExtractMiniatures(data) ==
  IF data.t = "array" THEN "array"
  ELSE IF data.t = "object" /\ Has(data.fields, "miniatures") THEN data.fields["miniatures"]
  ELSE "undefined"

\* the Array.isArray(miniatures) check that follows
IsMiniaturesArray(data) == ExtractMiniatures(data) = "array"

\* the parsed JSON of a document of each shape
JsonOf(doc) ==
  IF doc.shape = "array" THEN [t |-> "array", fields |-> NoFields]
  ELSE IF doc.shape = "miniatures"
    THEN [t |-> "object", fields |-> [k \in {"miniatures"} |-> "array"]]
  ELSE IF doc.shape = "records"
    THEN [t |-> "object", fields |-> [k \in {"records"} |-> "array"]]
  ELSE [t |-> "object", fields |-> NoFields]

\* Array.isArray(data) ? data : data?.miniatures, then the Array.isArray check
HasMiniaturesArray(doc) == IsMiniaturesArray(JsonOf(doc))

\* UPDATE miniatures SET <supplied columns> WHERE id = ?
UpdateRows(rows, id, fields) ==
  { IF r.id = id /\ Has(fields, "name") THEN [r EXCEPT !.name = fields.name] ELSE r
      : r \in rows }

\* DELETE FROM miniatures WHERE id = ?, once per id
DeleteRows(rows, ids) == { r \in rows : r.id \notin ids }

\* ---- initDatabase ----

\* initSqlJs resolves
InitEngineOk ==
  /\ initPc = "start"
  /\ SQL' = TRUE
  /\ initPc' = "load"
  /\ UNCHANGED << db, idb, isDirty, uiVars, savedDb, ensureThrows, opVars, syncVars, linkVars,
                  uuids, acts, lastSave, listBefore, synced >>
  /\ UNCHANGED auxVars

\* an initDatabase that drops the stored snapshot when initSqlJs rejects
InitEngineFail_ClearsSnapshot ==
  /\ initPc = "start"
  /\ initPc' = "failed"
  /\ toast' = "init-error"
  /\ idb' = NoSnapshot
  /\ UNCHANGED << SQL, db, isDirty, url, linked, linking, syncing, error,
                  syncUrlKey, savedDb, ensureThrows, opVars, syncVars, linkVars,
                  uuids, acts, lastSave, listBefore, synced >>
  /\ UNCHANGED auxVars

\* initSqlJs rejects: initDatabase throws, the app shows the blocking error
InitEngineFail ==
  /\ initPc = "start"
  /\ initPc' = "failed"
  /\ toast' = "init-error"
  /\ UNCHANGED << SQL, db, idb, isDirty, url, linked, linking, syncing, error,
                  syncUrlKey, savedDb, ensureThrows, opVars, syncVars, linkVars,
                  uuids, acts, lastSave, listBefore, synced >>
  /\ UNCHANGED auxVars

\* the try/catch around ensureSchema without the second attempt
EnsureSchemaOrRetry_NoRetry(d, firstThrows, retryThrows) ==
  IF ~firstThrows THEN [ok |-> TRUE, db |-> d, threw |-> 0]
  ELSE [ok |-> FALSE, db |-> d, threw |-> 1]

\* try { ensureSchema() } catch { db = new SQL.Database(); ensureSchema() }
\* on database d: the first call throws or not, and so does the second, made
\* on a new database; a throw of the second is thrown on (err2).  threw
\* counts the calls that threw.
EnsureSchemaOrRetry(d, firstThrows, retryThrows) ==
  IF ~firstThrows THEN [ok |-> TRUE, db |-> d, threw |-> 0]
  ELSE IF ~retryThrows THEN [ok |-> TRUE, db |-> FreshDb, threw |-> 1]
  ELSE [ok |-> FALSE, db |-> FreshDb, threw |-> 2]

\* where initDatabase goes after the schema block
AfterSchema(r) ==
  [next |-> IF r.ok THEN "save" ELSE "failed", db |-> r.db, threw |-> r.threw]

\* initDatabase without the recovery: a corrupt blob makes it throw
OpenAndEnsureSchema_NoRecovery(saved, openThrows, schemaThrows, retryThrows) ==
  IF saved.kind = "db"
    THEN [next |-> "save", db |-> [open |-> TRUE, rows |-> saved.rows], threw |-> 0]
  ELSE IF saved.kind = "none"
    THEN AfterSchema(EnsureSchemaOrRetry(FreshDb, schemaThrows, retryThrows))
  ELSE [next |-> "failed", db |-> NoDb, threw |-> 0]

\* The database is opened from savedDb (or a new one is created) and the
\* schema block runs on it.  On a snapshot this program wrote every statement
\* of ensureSchema succeeds (IF NOT EXISTS).  On a new database ensureSchema
\* throws only when the engine fails (schemaThrows).  A corrupt blob makes
\* either new SQL.Database(savedDb) throw (then the stored blob is cleared
\* first, and the schema block runs after the clear) or the first statement
\* of ensureSchema throw.
OpenAndEnsureSchema(saved, openThrows, schemaThrows, retryThrows) ==
  IF saved.kind = "db"
    THEN [next |-> "save", db |-> [open |-> TRUE, rows |-> saved.rows], threw |-> 0]
  ELSE IF saved.kind = "none"
    THEN AfterSchema(EnsureSchemaOrRetry(FreshDb, schemaThrows, retryThrows))
  ELSE IF openThrows THEN [next |-> "clear", db |-> NoDb, threw |-> 0]
  ELSE AfterSchema(EnsureSchemaOrRetry([open |-> TRUE, rows |-> EmptyRows], TRUE, retryThrows))

\* loadDatabaseFromIndexedDB settles: with the stored blob, with null when
\* nothing is stored, or with a read error that is caught and turned into
\* null.  Then the database is opened and the schema ensured; when that
\* throws, the app shows the blocking error.
InitLoad(readError, openThrows, schemaThrows, retryThrows) ==
  /\ initPc = "load"
  /\ LET saved == IF readError THEN NoSnapshot ELSE idb
         r == OpenAndEnsureSchema(saved, openThrows, schemaThrows, retryThrows)
     IN /\ savedDb' = saved
        /\ db' = r.db
        /\ initPc' = r.next
        /\ ensureThrows' = r.threw
        /\ toast' = IF r.next = "failed" THEN "init-error" ELSE toast
  /\ UNCHANGED << SQL, idb, isDirty, url, linked, linking, syncing, error, syncUrlKey,
                  opVars, syncVars, linkVars,
                  uuids, acts, lastSave, listBefore, synced >>
  /\ UNCHANGED auxVars

\* clearSavedDatabaseFromIndexedDB settles (a failure is only logged); then
\* db = new SQL.Database(), the schema block, and the save is started
InitClear(ok, schemaThrows, retryThrows) ==
  /\ initPc = "clear"
  /\ idb' = IF ok THEN NoSnapshot ELSE idb
  /\ LET r == AfterSchema(EnsureSchemaOrRetry(FreshDb, schemaThrows, retryThrows))
     IN /\ db' = r.db
        /\ initPc' = r.next
        /\ ensureThrows' = r.threw
        /\ toast' = IF r.next = "failed" THEN "init-error" ELSE toast
  /\ UNCHANGED << SQL, isDirty, url, linked, linking, syncing, error, syncUrlKey,
                  savedDb, opVars, syncVars, linkVars,
                  uuids, acts, lastSave, listBefore, synced >>
  /\ UNCHANGED auxVars

\* saveDatabaseToIndexedDB settles (a failure is only logged)
InitSave(ok) ==
  /\ initPc = "save"
  /\ idb' = IF ok THEN Export(db) ELSE idb
  /\ initPc' = "done"
  /\ ensureThrows' = 0
  /\ UNCHANGED << SQL, db, isDirty, uiVars, savedDb, opVars, syncVars, linkVars,
                  uuids, acts, lastSave, listBefore, synced >>
  /\ UNCHANGED auxVars

\* ---- the repository ----

CanAct == Ready /\ acts < MaxActs

\* saveDatabase that does not set isDirty
OpSave_NoDirty(ok) ==
  /\ opPc = "saving"
  /\ opPc' = "idle"
  /\ idb' = IF ok THEN Export(db) ELSE idb
  /\ opResult' = IF ok THEN "ok" ELSE "failed"
  /\ lastSave' = IF ok THEN "ok" ELSE "failed"
  /\ UNCHANGED << SQL, db, isDirty, uiVars, initPc, savedDb, ensureThrows, syncVars, linkVars,
                  uuids, acts, listBefore, synced >>
  /\ UNCHANGED auxVars

\* saveDatabase settles for the call in flight: on success the snapshot is
\* the export of the live database and isDirty is set; on failure the call
\* rejects and nothing is rolled back
OpSave(ok) ==
  /\ opPc = "saving"
  /\ opPc' = "idle"
  /\ idb' = IF ok THEN Export(db) ELSE idb
  /\ isDirty' = IF ok THEN "true" ELSE isDirty
  /\ synced' = IF ok THEN NoSync ELSE synced
  /\ opResult' = IF ok THEN "ok" ELSE "failed"
  /\ lastSave' = IF ok THEN "ok" ELSE "failed"
  /\ UNCHANGED << SQL, db, uiVars, initPc, savedDb, ensureThrows, syncVars, linkVars,
                  uuids, acts, listBefore >>
  /\ UNCHANGED auxVars

createMiniature(m) ==
  /\ CanAct /\ opPc = "idle"
  /\ uuids + NeedUuids(<< m >>) <= MaxUuid
  /\ acts' = acts + 1
  /\ LET r == InsertRow([ok |-> TRUE, rows |-> db.rows, uuids |-> uuids], m)
     IN /\ uuids' = r.uuids
        /\ db' = [db EXCEPT !.rows = r.rows]
        /\ opPc' = IF r.ok THEN "saving" ELSE "idle"
        /\ opResult' = IF r.ok THEN "none" ELSE "failed"
  /\ UNCHANGED << SQL, idb, isDirty, uiVars, initPc, savedDb, ensureThrows, syncVars, linkVars,
                  lastSave, listBefore, synced >>
  /\ UNCHANGED auxVars

updateMiniature(id, fields) ==
  /\ CanAct /\ opPc = "idle"
  /\ acts' = acts + 1
  /\ db' = [db EXCEPT !.rows = UpdateRows(db.rows, id, fields)]
  /\ opPc' = "saving"
  /\ opResult' = "none"
  /\ UNCHANGED << SQL, idb, isDirty, uiVars, initPc, savedDb, ensureThrows, syncVars, linkVars,
                  uuids, lastSave, listBefore, synced >>
  /\ UNCHANGED auxVars

deleteMiniature(id) ==
  /\ CanAct /\ opPc = "idle"
  /\ acts' = acts + 1
  /\ db' = [db EXCEPT !.rows = DeleteRows(db.rows, {id})]
  /\ opPc' = "saving"
  /\ opResult' = "none"
  /\ UNCHANGED << SQL, idb, isDirty, uiVars, initPc, savedDb, ensureThrows, syncVars, linkVars,
                  uuids, lastSave, listBefore, synced >>
  /\ UNCHANGED auxVars

\* an empty id list returns at once; otherwise BEGIN, the deletes, COMMIT;
\* when a delete throws, ROLLBACK and the call rejects without a save
deleteMiniatures(ids, throws) ==
  /\ CanAct /\ opPc = "idle"
  /\ acts' = acts + 1
  /\ db' = IF throws /\ ids # {} THEN db ELSE [db EXCEPT !.rows = DeleteRows(db.rows, ids)]
  /\ opPc' = IF ids = {} \/ throws THEN "idle" ELSE "saving"
  /\ opResult' = IF ids = {} THEN "noop" ELSE IF throws THEN "failed" ELSE "none"
  /\ UNCHANGED << SQL, idb, isDirty, uiVars, initPc, savedDb, ensureThrows, syncVars, linkVars,
                  uuids, lastSave, listBefore, synced >>
  /\ UNCHANGED auxVars

\* ---- Synchronize: the URL field, Link URL, Remove Link ----

UrlValues == {"", "bad", "U"}

\* new URL(url) does not throw
IsValidUrl(u) == u = "U"

\* the input's onChange; the field is read-only while linked
TypeUrl(u) ==
  /\ Ready /\ ~linked /\ u # url
  /\ url' = u
  /\ error' = ""
  /\ UNCHANGED << SQL, db, idb, isDirty, syncUrlKey, linked, linking, syncing, toast,
                  initPc, savedDb, ensureThrows, opVars, syncVars, linkVars, uuids, acts,
                  lastSave, listBefore, synced >>
  /\ UNCHANGED auxVars

\* handleLink up to the fetch; the button is rendered while not linked and
\* disabled while linking
handleLink ==
  /\ CanAct /\ ~linked /\ ~linking /\ linkPc = "idle"
  /\ acts' = acts + 1
  /\ IF url = "" THEN
       /\ error' = "Please enter a URL"
       /\ UNCHANGED << linking, linkPc, linkUrl, linkTimer >>
     ELSE IF ~IsValidUrl(url) THEN
       /\ error' = "Invalid URL"
       /\ UNCHANGED << linking, linkPc, linkUrl, linkTimer >>
     ELSE
       /\ linking' = TRUE
       /\ linkPc' = "fetching"
       /\ linkUrl' = url
       /\ linkTimer' = TRUE
       /\ UNCHANGED error
  /\ UNCHANGED << SQL, db, idb, isDirty, syncUrlKey, url, linked, syncing, toast,
                  initPc, savedDb, ensureThrows, opVars, syncVars, linkDoc, linkTmp, uuids,
                  lastSave, listBefore, synced >>
  /\ UNCHANGED auxVars

\* the catch and finally blocks of handleLink
LinkRejected ==
  /\ error' = "Could not link URL"
  /\ linking' = FALSE
  /\ linkPc' = "idle"
  /\ linkUrl' = ""
  /\ linkDoc' = NoDoc
  /\ linkTimer' = FALSE
  /\ linkTmp' = NoDb
  /\ UNCHANGED << syncUrlKey, url, linked, syncing, toast, isDirty >>

\* the fetch fails: the proxy is not reachable or answers with an error
\* status (the timer fired, the remote status is not 2xx, the body is not
\* JSON)
LinkFetchFail ==
  /\ linkPc = "fetching"
  /\ LinkRejected
  /\ UNCHANGED << SQL, db, idb, initPc, savedDb, ensureThrows, opVars, syncVars, uuids, acts,
                  lastSave, listBefore, synced >>
  /\ UNCHANGED auxVars

\* the remote source starts to answer: the proxy's fetch resolves and
\* clearTimeout runs; the body is read without a timer
LinkHeaders ==
  /\ linkPc = "fetching" /\ linkTimer
  /\ linkTimer' = FALSE
  /\ UNCHANGED << SQL, db, idb, isDirty, uiVars, initPc, savedDb, ensureThrows, opVars,
                  syncVars, linkPc, linkUrl, linkDoc, linkTmp, uuids, acts,
                  lastSave, listBefore, synced >>
  /\ UNCHANGED auxVars

\* the body was read and the proxy answers with the JSON document: the
\* array check, createTemporaryDatabase and the trial insertion
LinkFetchDone(doc) ==
  /\ linkPc = "fetching" /\ ~linkTimer
  /\ uuids + NeedUuids(doc.items) <= MaxUuid
  /\ IF ~HasMiniaturesArray(doc) THEN
       /\ LinkRejected
       /\ UNCHANGED uuids
     ELSE LET r == insertMiniaturesIntoDatabase(FreshDb, doc.items, uuids)
          IN /\ uuids' = r.uuids
             /\ IF r.ok THEN
                  /\ linkDoc' = doc
                  /\ linkTmp' = [open |-> TRUE, rows |-> r.rows]
                  /\ linkPc' = "inserted"
                  /\ UNCHANGED << linkUrl, linkTimer, uiVars, isDirty >>
                ELSE LinkRejected
  /\ UNCHANGED << SQL, db, idb, initPc, savedDb, ensureThrows, opVars, syncVars, acts,
                  lastSave, listBefore, synced >>
  /\ UNCHANGED auxVars

\* the data is valid: the URL is persisted, isDirty is set, linked is set
LinkPersist ==
  /\ linkPc = "inserted"
  /\ syncUrlKey' = linkUrl
  /\ isDirty' = "true"
  /\ synced' = NoSync
  /\ linked' = TRUE
  /\ error' = ""
  /\ toast' = "link-ok"
  /\ linking' = FALSE
  /\ linkPc' = "idle"
  /\ linkUrl' = ""
  /\ linkDoc' = NoDoc
  /\ linkTimer' = FALSE
  /\ linkTmp' = NoDb
  /\ UNCHANGED << SQL, db, idb, url, syncing, initPc, savedDb, ensureThrows, opVars, syncVars,
                  uuids, acts, lastSave, listBefore >>
  /\ UNCHANGED auxVars

\* Remove Link that also marks the local data clean
handleRemoveLink_ClearsDirty ==
  /\ CanAct /\ linked
  /\ acts' = acts + 1
  /\ syncUrlKey' = ""
  /\ url' = ""
  /\ linked' = FALSE
  /\ error' = ""
  /\ toast' = "link-removed"
  /\ isDirty' = "false"
  /\ UNCHANGED << SQL, db, idb, linking, syncing, initPc, savedDb, ensureThrows, opVars,
                  syncVars, linkVars, uuids, lastSave, listBefore, synced >>
  /\ UNCHANGED auxVars

\* Remove Link is rendered while linked
handleRemoveLink ==
  /\ CanAct /\ linked
  /\ acts' = acts + 1
  /\ syncUrlKey' = ""
  /\ url' = ""
  /\ linked' = FALSE
  /\ error' = ""
  /\ toast' = "link-removed"
  /\ UNCHANGED << SQL, db, idb, isDirty, linking, syncing, initPc, savedDb, ensureThrows, opVars,
                  syncVars, linkVars, uuids, lastSave, listBefore, synced >>
  /\ UNCHANGED auxVars

\* ---- Synchronize: handleSync ----

\* the end of an attempt: finally { setSyncing(false) }, locals dropped
SyncEnds ==
  /\ syncing' = FALSE
  /\ syncPc' = "idle"
  /\ syncDoc' = NoDoc
  /\ syncTimer' = FALSE
  /\ syncTmp' = NoDb
  /\ dirtyAtSync' = "null"
  /\ syncBase' = NoBase
  /\ confirmed' = FALSE

\* a catch block that shows no notification
SyncFails_Silent(message) ==
  /\ SyncEnds
  /\ toast' = toast

SyncFails(message) ==
  /\ SyncEnds
  /\ toast' = message

\* handleSync without the isDirty check
handleSync_NoConfirm ==
  /\ CanAct /\ linked /\ ~syncing /\ syncPc = "idle"
  /\ acts' = acts + 1
  /\ IF url = "" THEN
       /\ toast' = "need-link"
       /\ UNCHANGED << syncing, syncPc, syncTimer, dirtyAtSync, syncBase >>
     ELSE
       /\ dirtyAtSync' = isDirty
       /\ syncBase' = BaseAt(db, acts + 1)
       /\ syncPc' = "fetching"
       /\ syncTimer' = TRUE
       /\ syncing' = TRUE
       /\ UNCHANGED toast
  /\ UNCHANGED << SQL, db, idb, isDirty, syncUrlKey, url, linked, linking, error,
                  initPc, savedDb, ensureThrows, opVars, syncDoc, syncTmp, confirmed, linkVars,
                  uuids, lastSave, listBefore, synced >>
  /\ UNCHANGED auxVars

\* handleSync up to the confirm dialog or the fetch; the button is rendered
\* while linked and disabled while syncing
handleSync ==
  /\ CanAct /\ linked /\ ~syncing /\ syncPc = "idle"
  /\ acts' = acts + 1
  /\ IF url = "" THEN
       /\ toast' = "need-link"
       /\ UNCHANGED << syncing, syncPc, syncTimer, dirtyAtSync, syncBase >>
     ELSE
       /\ dirtyAtSync' = isDirty
       /\ syncBase' = IF isDirty = "true" THEN NoBase ELSE BaseAt(db, acts + 1)
       /\ syncPc' = IF isDirty = "true" THEN "confirm" ELSE "fetching"
       /\ syncTimer' = (isDirty # "true")
       /\ syncing' = (isDirty # "true")
       /\ UNCHANGED toast
  /\ UNCHANGED << SQL, db, idb, isDirty, syncUrlKey, url, linked, linking, error,
                  initPc, savedDb, ensureThrows, opVars, syncDoc, syncTmp, confirmed, linkVars,
                  uuids, lastSave, listBefore, synced >>
  /\ UNCHANGED auxVars

\* the confirm dialog is answered
SyncConfirm(proceed) ==
  /\ syncPc = "confirm"
  /\ IF proceed THEN
       /\ confirmed' = TRUE
       /\ syncing' = TRUE
       /\ syncPc' = "fetching"
       /\ syncBase' = BaseAt(db, acts)
       /\ syncTimer' = TRUE
       /\ UNCHANGED << syncDoc, syncTmp, dirtyAtSync >>
     ELSE SyncEnds
  /\ UNCHANGED << SQL, db, idb, isDirty, syncUrlKey, url, linked, linking, error,
                  toast, initPc, savedDb, ensureThrows, opVars, linkVars, uuids, acts,
                  lastSave, listBefore, synced >>
  /\ UNCHANGED auxVars

SyncFetchFail ==
  /\ syncPc = "fetching"
  /\ SyncFails("sync-error: fetch")
  /\ UNCHANGED << SQL, db, idb, isDirty, syncUrlKey, url, linked, linking, error,
                  initPc, savedDb, ensureThrows, opVars, linkVars, uuids, acts, lastSave, listBefore, synced >>
  /\ UNCHANGED auxVars

\* the remote source starts to answer: the proxy's fetch resolves and
\* clearTimeout runs; the body is read without a timer
SyncHeaders ==
  /\ syncPc = "fetching" /\ syncTimer
  /\ syncTimer' = FALSE
  /\ UNCHANGED << SQL, db, idb, isDirty, uiVars, initPc, savedDb, ensureThrows, opVars,
                  syncPc, syncDoc, syncTmp, dirtyAtSync, syncBase, confirmed, linkVars,
                  uuids, acts, lastSave, listBefore, synced >>
  /\ UNCHANGED auxVars

\* the body was read and the proxy answers with the JSON document: the
\* array check (outer catch), createTemporaryDatabase and the insertion into
\* it (inner catch)
SyncFetchDone(doc) ==
  /\ syncPc = "fetching" /\ ~syncTimer
  /\ uuids + NeedUuids(doc.items) <= MaxUuid
  /\ IF ~HasMiniaturesArray(doc) THEN
       /\ SyncFails("sync-error: no miniatures array")
       /\ UNCHANGED uuids
     ELSE LET r == insertMiniaturesIntoDatabase(FreshDb, doc.items, uuids)
          IN /\ uuids' = r.uuids
             /\ IF r.ok THEN
                  /\ syncDoc' = doc
                  /\ syncTmp' = [open |-> TRUE, rows |-> r.rows]
                  /\ syncPc' = "replacing"
                  /\ UNCHANGED << syncing, syncTimer, dirtyAtSync, syncBase, confirmed, toast >>
                ELSE SyncFails("sync-error: building temporary database")
  /\ UNCHANGED << SQL, db, idb, isDirty, syncUrlKey, url, linked, linking, error,
                  initPc, savedDb, ensureThrows, opVars, linkVars, acts, lastSave, listBefore, synced >>
  /\ UNCHANGED auxVars

\* a replacement that inserts the remote rows next to the live ones
replaceDatabaseWith_Merge(dbInstance) ==
  [open |-> TRUE, rows |-> db.rows \cup Export(dbInstance).rows]

\* db = new SQL.Database(dbInstance.export()); ensureSchemaOn(db)
replaceDatabaseWith(dbInstance) == [open |-> TRUE, rows |-> Export(dbInstance).rows]

\* replaceDatabaseWith up to its await: the live database is swapped and the
\* save is started
SyncReplace ==
  /\ syncPc = "replacing"
  /\ db' = replaceDatabaseWith(syncTmp)
  /\ syncPc' = "saving"
  /\ UNCHANGED << SQL, idb, isDirty, uiVars, initPc, savedDb, ensureThrows, opVars,
                  syncDoc, syncTimer, syncTmp, dirtyAtSync, syncBase, confirmed, linkVars, uuids, acts,
                  lastSave, listBefore, synced >>
  /\ UNCHANGED auxVars

\* the save of replaceDatabaseWith settles: on success isDirty is cleared and
\* the success toast shown; on failure the inner catch shows the error
SyncSave(ok) ==
  /\ syncPc = "saving"
  /\ SyncEnds
  /\ idb' = IF ok THEN Export(db) ELSE idb
  /\ isDirty' = IF ok THEN "false" ELSE isDirty
  /\ synced' = IF ok THEN [valid |-> TRUE, rows |-> getAllMiniatures(db)] ELSE synced
  /\ toast' = IF ok THEN "sync-ok" ELSE "sync-error: building temporary database"
  /\ lastSave' = IF ok THEN "ok" ELSE "failed"
  /\ UNCHANGED << SQL, db, syncUrlKey, url, linked, linking, error,
                  initPc, savedDb, ensureThrows, opVars, linkVars, uuids, acts, listBefore >>
  /\ UNCHANGED auxVars

\* ---- the page, the stored blob ----

Quiescent == opPc = "idle" /\ syncPc = "idle" /\ linkPc = "idle"

\* the page is reloaded: module variables and React state start over,
\* localStorage and IndexedDB stay
Reload ==
  /\ initPc \in {"done", "failed"}
  /\ acts < MaxActs
  /\ acts' = acts + 1
  /\ SQL' = FALSE
  /\ db' = NoDb
  /\ url' = syncUrlKey
  /\ linked' = (syncUrlKey # "")
  /\ linking' = FALSE
  /\ syncing' = FALSE
  /\ error' = ""
  /\ toast' = "none"
  /\ initPc' = "start"
  /\ savedDb' = NoSnapshot
  /\ ensureThrows' = 0
  /\ opPc' = "idle"
  /\ opResult' = "none"
  /\ syncPc' = "idle"
  /\ syncDoc' = NoDoc
  /\ syncTimer' = FALSE
  /\ syncTmp' = NoDb
  /\ dirtyAtSync' = "null"
  /\ syncBase' = NoBase
  /\ confirmed' = FALSE
  /\ linkPc' = "idle"
  /\ linkUrl' = ""
  /\ linkDoc' = NoDoc
  /\ linkTimer' = FALSE
  /\ linkTmp' = NoDb
  /\ lastSave' = "none"
  /\ listBefore' = [valid |-> initPc = "done" /\ Quiescent /\ lastSave = "ok",
                    rows |-> getAllMiniatures(db)]
  /\ UNCHANGED << idb, isDirty, syncUrlKey, uuids, synced >>
  /\ UNCHANGED auxVars

\* the stored blob is truncated or overwritten while the page is not running
CorruptStoredBlob ==
  /\ initPc = "start"
  /\ idb.kind = "db"
  /\ idb' = CorruptBlob
  /\ listBefore' = [listBefore EXCEPT !.valid = FALSE]
  /\ UNCHANGED << SQL, db, isDirty, uiVars, initPc, savedDb, ensureThrows, opVars, syncVars,
                  linkVars, uuids, acts, lastSave, synced >>
  /\ UNCHANGED auxVars

Next ==
  \/ InitEngineOk
  \/ InitEngineFail
  \/ \E readError \in BOOLEAN, openThrows \in BOOLEAN, schemaThrows \in BOOLEAN,
        retryThrows \in BOOLEAN : InitLoad(readError, openThrows, schemaThrows, retryThrows)
  \/ \E ok \in BOOLEAN, schemaThrows \in BOOLEAN, retryThrows \in BOOLEAN :
       InitClear(ok, schemaThrows, retryThrows)
  \/ \E ok \in BOOLEAN : InitSave(ok)
  \/ \E ok \in BOOLEAN : OpSave(ok)
  \/ \E m \in EntryPool \ {NullEntry} : createMiniature(m)
  \/ \E id \in Ids(db.rows) \cup {"a"}, fields \in UpdatePool : updateMiniature(id, fields)
  \/ \E id \in Ids(db.rows) \cup {"a"} : deleteMiniature(id)
  \/ \E ids \in SUBSET Ids(db.rows), throws \in BOOLEAN : deleteMiniatures(ids, throws)
  \/ \E u \in UrlValues : TypeUrl(u)
  \/ handleLink
  \/ LinkHeaders
  \/ LinkFetchFail
  \/ \E doc \in Docs : LinkFetchDone(doc)
  \/ LinkPersist
  \/ handleRemoveLink
  \/ handleSync
  \/ \E proceed \in BOOLEAN : SyncConfirm(proceed)
  \/ SyncHeaders
  \/ SyncFetchFail
  \/ \E doc \in Docs : SyncFetchDone(doc)
  \/ SyncReplace
  \/ \E ok \in BOOLEAN : SyncSave(ok)
  \/ Reload
  \/ CorruptStoredBlob

Spec == Init /\ [][Next]_vars

\* the proxy's 10 s timer fires while the remote source has not started to
\* answer: controller.abort() rejects the fetch and the attempt fails
SyncTimeout == syncTimer /\ SyncFetchFail

LinkTimeout == linkTimer /\ LinkFetchFail

\* What the code's scheduling guarantees: an armed timer fires, and the
\* steps that wait for nothing remote (the replacement, the awaited
\* IndexedDB save, the localStorage write) complete.  Nothing bounds the
\* arrival of the headers or of the body, and nothing makes the user answer
\* a dialog.
Fairness ==
  /\ WF_vars(SyncTimeout)
  /\ WF_vars(LinkTimeout)
  /\ WF_vars(SyncReplace)
  /\ WF_vars(\E ok \in BOOLEAN : SyncSave(ok))
  /\ WF_vars(LinkPersist)

LiveSpec == Init /\ [][Next]_vars /\ Fairness

\* ---- the repository, record by record ----
\* The same repository calls on rows with every column.  Text columns hold
\* "" or one value, embedding holds "" for NULL; timestamps are numbers
\* ordered as the ISO strings are.  A call is one step here: its INSERT /
\* UPDATE / DELETE and the settling of its save, which writes the snapshot
\* (idb, here with the full rows) and isDirty.

progRest == << SQL, db, syncUrlKey, url, linked, linking, syncing,
               error, toast, initPc, savedDb, ensureThrows, opPc, opResult,
               syncPc, syncDoc, syncTimer, syncTmp, dirtyAtSync, syncBase, confirmed, linkPc, linkUrl,
               linkDoc, linkTimer, linkTmp, lastSave, listBefore, synced >>

\* what createMiniature is called with
CreatePool ==
  { [id |-> "a", game |-> "g", name |-> "n", amount |-> 2, painted |-> TRUE,
     keywords |-> "k", image_data |-> "i"],
    [id |-> "b", created_at |-> 0],
    [name |-> "n", amount |-> 0] }

\* what updateMiniature is called with
RecUpdatePool ==
  { NoFields,
    [name |-> "m"],
    [painted |-> TRUE, amount |-> 0],
    [embedding |-> "e"],
    [id |-> "z", created_at |-> 0] }

\* the arrays a remote document may hold
RecDocs ==
  { << >>,
    << [id |-> "a", game |-> "g", name |-> "n", amount |-> 2, painted |-> TRUE,
        keywords |-> "k", image_data |-> "i", created_at |-> 1, updated_at |-> 2] >>,
    << [id |-> "b", created_at |-> 3, updated_at |-> 1] >>,
    << [name |-> "n"], [id |-> "b", amount |-> 0, embedding |-> "e"] >>,
    << [id |-> "a"], [id |-> "a"] >>,
    << [id |-> "a"], NullEntry >> }

\* m.f || ''
TextOrEmpty(m, f) == IF Has(m, f) THEN m[f] ELSE ""

\* createMiniature that takes the timestamps of its argument when it has them
CreateRecord_KeepsStamps(m, id, t) ==
  [ id |-> id,
    game |-> TextOrEmpty(m, "game"),
    name |-> TextOrEmpty(m, "name"),
    amount |-> IF Has(m, "amount") /\ m.amount # 0 THEN m.amount ELSE 1,
    painted |-> Has(m, "painted") /\ m.painted,
    keywords |-> TextOrEmpty(m, "keywords"),
    embedding |-> "",
    image_data |-> TextOrEmpty(m, "image_data"),
    created_at |-> IF Has(m, "created_at") THEN m.created_at ELSE t,
    updated_at |-> t ]

\* the row createMiniature inserts
CreateRecord(m, id, t) ==
  [ id |-> id,
    game |-> TextOrEmpty(m, "game"),
    name |-> TextOrEmpty(m, "name"),
    amount |-> IF Has(m, "amount") /\ m.amount # 0 THEN m.amount ELSE 1,
    painted |-> Has(m, "painted") /\ m.painted,
    keywords |-> TextOrEmpty(m, "keywords"),
    embedding |-> "",
    image_data |-> TextOrEmpty(m, "image_data"),
    created_at |-> t,
    updated_at |-> t ]

\* an import that stamps every row with the time of the import
ImportRecord_Restamps(m, id, t) ==
  [ id |-> id,
    game |-> TextOrEmpty(m, "game"),
    name |-> TextOrEmpty(m, "name"),
    amount |-> IF Has(m, "amount") THEN m.amount ELSE 1,
    painted |-> Has(m, "painted") /\ m.painted,
    keywords |-> TextOrEmpty(m, "keywords"),
    embedding |-> "",
    image_data |-> TextOrEmpty(m, "image_data"),
    created_at |-> t,
    updated_at |-> t ]

\* the row insertMiniaturesIntoDatabase inserts for entry m
ImportRecord(m, id, t) ==
  [ id |-> id,
    game |-> TextOrEmpty(m, "game"),
    name |-> TextOrEmpty(m, "name"),
    amount |-> IF Has(m, "amount") THEN m.amount ELSE 1,
    painted |-> Has(m, "painted") /\ m.painted,
    keywords |-> TextOrEmpty(m, "keywords"),
    embedding |-> "",
    image_data |-> TextOrEmpty(m, "image_data"),
    created_at |-> IF Has(m, "created_at") THEN m.created_at ELSE t,
    updated_at |-> IF Has(m, "updated_at") THEN m.updated_at ELSE t ]

\* one pass of the loop of insertMiniaturesIntoDatabase on full rows
ImportRow(st, m, t) ==
  IF ~st.ok \/ Has(m, "isNull") THEN [st EXCEPT !.ok = FALSE]
  ELSE LET id == IF Has(m, "id") THEN m.id ELSE Uuid(st.uuids)
           n == IF Has(m, "id") THEN st.uuids ELSE st.uuids + 1
       IN IF id \in Ids(st.rows) THEN [st EXCEPT !.ok = FALSE, !.uuids = n]
          ELSE [ok |-> TRUE, rows |-> st.rows \cup { ImportRecord(m, id, t) }, uuids |-> n]

RECURSIVE ImportFrom(_, _, _, _)
ImportFrom(st, items, i, t) ==
  IF i > Len(items) THEN st
  ELSE ImportFrom(ImportRow(st, items[i], t), items, i + 1, t)

\* createTemporaryDatabase, then insertMiniaturesIntoDatabase(tmp, miniatures)
ImportAll(miniatures, u, t) ==
  ImportFrom([ok |-> TRUE, rows |-> {}, uuids |-> u], miniatures, 1, t)

\* an update that writes every column, the unsupplied ones with defaults
UpdateRecord_Rewrites(r, u, t) ==
  [ id |-> r.id,
    game |-> TextOrEmpty(u, "game"),
    name |-> TextOrEmpty(u, "name"),
    amount |-> IF Has(u, "amount") THEN u.amount ELSE 1,
    painted |-> Has(u, "painted") /\ u.painted,
    keywords |-> TextOrEmpty(u, "keywords"),
    embedding |-> TextOrEmpty(u, "embedding"),
    image_data |-> TextOrEmpty(u, "image_data"),
    created_at |-> r.created_at,
    updated_at |-> t ]

\* UPDATE miniatures SET <supplied columns>, updated_at = ? on one row
UpdateRecord(r, u, t) ==
  [ r EXCEPT
      !.game = IF Has(u, "game") THEN u.game ELSE @,
      !.name = IF Has(u, "name") THEN u.name ELSE @,
      !.amount = IF Has(u, "amount") THEN u.amount ELSE @,
      !.painted = IF Has(u, "painted") THEN u.painted ELSE @,
      !.keywords = IF Has(u, "keywords") THEN u.keywords ELSE @,
      !.embedding = IF Has(u, "embedding") THEN u.embedding ELSE @,
      !.image_data = IF Has(u, "image_data") THEN u.image_data ELSE @,
      !.updated_at = t ]

\* the object getAllMiniatures builds from a row, as JSON.stringify writes
\* it: embedding is left out when the column is NULL
ExportRecord(r) ==
  LET e == [ id |-> r.id, game |-> r.game, name |-> r.name, amount |-> r.amount,
             painted |-> r.painted, keywords |-> r.keywords,
             image_data |-> r.image_data,
             created_at |-> r.created_at, updated_at |-> r.updated_at ]
  IN IF r.embedding = "" THEN e ELSE e @@ [embedding |-> r.embedding]

\* exportDatabaseAsJSON: the rows ORDER BY created_at DESC
RECURSIVE exportDatabaseAsJSON(_)
exportDatabaseAsJSON(rows) ==
  IF rows = {} THEN << >>
  ELSE LET r == CHOOSE x \in rows : \A y \in rows : x.created_at >= y.created_at
       IN << ExportRecord(r) >> \o exportDatabaseAsJSON(rows \ {r})

RecInit ==
  /\ ProgramInit
  /\ tbl = {}
  /\ now = 1
  /\ ret = NoCall
  /\ fin = NoArgs
  /\ fout = NoArgs

RecCanAct == acts < MaxActs

\* how a call ends once its statement ran: it resolves, or rejects with the
\* error of the save
SaveResult(saveOk) == IF saveOk THEN "ok" ELSE "save-failed"

\* db.export() of the table
RecExport(rows) == [kind |-> "db", rows |-> rows]

\* saveDatabase() after the statement left rows: on success the snapshot is
\* their export and isDirty is set
RecSave(rows, saveOk) ==
  /\ idb' = IF saveOk THEN RecExport(rows) ELSE idb
  /\ isDirty' = IF saveOk THEN "true" ELSE isDirty

\* the call threw before it reached saveDatabase()
RecNoSave == UNCHANGED << idb, isDirty >>

\* the clock advances
RecTick ==
  /\ now < MaxTime
  /\ now' = now + 1
  /\ UNCHANGED << progVars, tbl, ret, fnVars >>

\* createMiniature with INSERT OR REPLACE
RecCreate_Replace(m, saveOk) ==
  /\ RecCanAct
  /\ Has(m, "id") \/ uuids < MaxUuid
  /\ acts' = acts + 1
  /\ LET id == IF Has(m, "id") THEN m.id ELSE Uuid(uuids)
     IN /\ uuids' = IF Has(m, "id") THEN uuids ELSE uuids + 1
        /\ tbl' = { r \in tbl : r.id # id } \cup { CreateRecord(m, id, now) }
        /\ ret' = [op |-> "create", id |-> id, args |-> m, res |-> SaveResult(saveOk),
                   saves |-> 1]
        /\ RecSave(tbl', saveOk)
  /\ UNCHANGED << progRest, now, fnVars >>

\* createMiniature; the INSERT fails on an id already there; the call
\* resolves with the id when the save succeeds and rejects when it fails
RecCreate(m, saveOk) ==
  /\ RecCanAct
  /\ Has(m, "id") \/ uuids < MaxUuid
  /\ acts' = acts + 1
  /\ LET id == IF Has(m, "id") THEN m.id ELSE Uuid(uuids)
     IN /\ uuids' = IF Has(m, "id") THEN uuids ELSE uuids + 1
        /\ IF id \in Ids(tbl)
             THEN /\ tbl' = tbl
                  /\ ret' = [op |-> "create", id |-> id, args |-> m, res |-> "constraint",
                             saves |-> 0]
                  /\ RecNoSave
             ELSE /\ tbl' = tbl \cup { CreateRecord(m, id, now) }
                  /\ ret' = [op |-> "create", id |-> id, args |-> m,
                             res |-> SaveResult(saveOk), saves |-> 1]
                  /\ RecSave(tbl', saveOk)
  /\ UNCHANGED << progRest, now, fnVars >>

\* updateMiniature
RecUpdate(id, u, saveOk) ==
  /\ RecCanAct
  /\ acts' = acts + 1
  /\ tbl' = { IF r.id = id THEN UpdateRecord(r, u, now) ELSE r : r \in tbl }
  /\ ret' = [op |-> "update", id |-> id, args |-> u, res |-> SaveResult(saveOk), saves |-> 1]
  /\ RecSave(tbl', saveOk)
  /\ UNCHANGED << progRest, uuids, now, fnVars >>

\* deleteMiniature
RecDelete(id, saveOk) ==
  /\ RecCanAct
  /\ acts' = acts + 1
  /\ tbl' = { r \in tbl : r.id # id }
  /\ ret' = [op |-> "delete", id |-> id, args |-> NoFields, res |-> SaveResult(saveOk),
             saves |-> 1]
  /\ RecSave(tbl', saveOk)
  /\ UNCHANGED << progRest, uuids, now, fnVars >>

\* an element of ids that stmt.run cannot bind (an object, not a string)
BadId == "[object Object]"

\* the id arrays deleteMiniatures is called with
IdLists ==
  { << >>, << "a" >>, << "b", "a" >>, << "a", "a" >>, << "b", BadId >> }

\* the for loop of deleteMiniatures on st = [ok, rows]: stmt.run([id]) per
\* id, in order, until one throws
RECURSIVE DeleteEach(_, _, _)
DeleteEach(st, ids, i) ==
  IF i > Len(ids) \/ ~st.ok THEN st
  ELSE IF ids[i] = BadId THEN [st EXCEPT !.ok = FALSE]
  ELSE DeleteEach([st EXCEPT !.rows = { r \in @ : r.id # ids[i] }], ids, i + 1)

\* the transaction without the ROLLBACK of the catch block
DeleteTransaction_NoRollback(rows, ids) ==
  DeleteEach([ok |-> TRUE, rows |-> rows], ids, 1)

\* BEGIN TRANSACTION, the loop, COMMIT; on a throw ROLLBACK, and the error
\* is thrown on
DeleteTransaction(rows, ids) ==
  LET r == DeleteEach([ok |-> TRUE, rows |-> rows], ids, 1)
  IN IF r.ok THEN r ELSE [ok |-> FALSE, rows |-> rows]

\* deleteMiniatures: an empty array returns at once; otherwise the
\* transaction and, when it committed, one saveDatabase()
RecDeleteMany(ids, saveOk) ==
  /\ RecCanAct
  /\ acts' = acts + 1
  /\ IF Len(ids) = 0
       THEN /\ tbl' = tbl
            /\ ret' = [op |-> "deleteMany", id |-> "", args |-> ids, res |-> "noop",
                       saves |-> 0]
            /\ RecNoSave
       ELSE LET r == DeleteTransaction(tbl, ids)
            IN /\ tbl' = r.rows
               /\ IF r.ok
                    THEN /\ ret' = [op |-> "deleteMany", id |-> "", args |-> ids,
                                    res |-> SaveResult(saveOk), saves |-> 1]
                         /\ RecSave(tbl', saveOk)
                    ELSE /\ ret' = [op |-> "deleteMany", id |-> "", args |-> ids,
                                    res |-> "rolled-back", saves |-> 0]
                         /\ RecNoSave
  /\ UNCHANGED << progRest, uuids, now, fnVars >>

\* what importDatabaseFromJSON is called with: a string that is not JSON,
\* the JSON of an object (not iterable), the JSON of an array
ImportInputs ==
  { [kind |-> "text", items |-> << >>], [kind |-> "object", items |-> << >>] }
    \cup { [kind |-> "array", items |-> d] : d \in RecDocs }

\* `await createMiniature(mini)` in the loop of importDatabaseFromJSON, on
\* st = [res, rows, uuids, saves, snap, saved]: the INSERT (it throws on a
\* null entry and on an id already inserted), then saveDatabase(), which is
\* call number saves + 1 and rejects when that is failAt
ImportEntry(st, m, t, failAt) ==
  IF st.res # "ok" THEN st
  ELSE IF Has(m, "isNull") THEN [st EXCEPT !.res = "invalid"]
  ELSE LET id == IF Has(m, "id") THEN m.id ELSE Uuid(st.uuids)
           n == IF Has(m, "id") THEN st.uuids ELSE st.uuids + 1
           rows == st.rows \cup { CreateRecord(m, id, t) }
       IN IF id \in Ids(st.rows) THEN [st EXCEPT !.res = "constraint", !.uuids = n]
          ELSE IF failAt = st.saves + 1
            THEN [st EXCEPT !.res = "save-failed", !.rows = rows, !.uuids = n,
                            !.saves = @ + 1]
          ELSE [st EXCEPT !.rows = rows, !.uuids = n, !.saves = @ + 1,
                          !.snap = rows, !.saved = TRUE]

RECURSIVE ImportEntries(_, _, _, _, _)
ImportEntries(st, items, i, t, failAt) ==
  IF i > Len(items) THEN st
  ELSE ImportEntries(ImportEntry(st, items[i], t, failAt), items, i + 1, t, failAt)

\* importDatabaseFromJSON on the table rows: JSON.parse, DELETE FROM
\* miniatures, the loop, and a last saveDatabase()
ImportJson(rows, input, u, t, failAt) ==
  LET start == [res |-> "ok", rows |-> {}, uuids |-> u, saves |-> 0, snap |-> {},
                saved |-> FALSE]
  IN IF input.kind = "text" THEN [start EXCEPT !.res = "invalid", !.rows = rows]
     ELSE IF input.kind = "object" THEN [start EXCEPT !.res = "invalid"]
     ELSE LET r == ImportEntries(start, input.items, 1, t, failAt)
          IN IF r.res # "ok" THEN r
             ELSE IF failAt = r.saves + 1
               THEN [r EXCEPT !.res = "save-failed", !.saves = @ + 1]
             ELSE [r EXCEPT !.saves = @ + 1, !.snap = r.rows, !.saved = TRUE]

RecImport(input, failAt) ==
  /\ RecCanAct
  /\ acts' = acts + 1
  /\ LET r == ImportJson(tbl, input, uuids, now, failAt)
     IN /\ r.uuids <= MaxUuid
        /\ uuids' = r.uuids
        /\ tbl' = r.rows
        /\ ret' = [op |-> "import", id |-> "", args |-> NoFields, res |-> r.res,
                   saves |-> r.saves]
        /\ idb' = IF r.saved THEN RecExport(r.snap) ELSE idb
        /\ isDirty' = IF r.saved THEN "true" ELSE isDirty
  /\ UNCHANGED << progRest, now, fnVars >>

\* the outcome of handleSync on an array: every entry goes into the
\* temporary database or the live database stays; after the replacement the
\* save may still fail
RecSyncOutcome(miniatures, saveOk, what) ==
  /\ RecCanAct
  /\ acts' = acts + 1
  /\ LET r == ImportAll(miniatures, uuids, now)
     IN /\ r.uuids <= MaxUuid
        /\ uuids' = r.uuids
        /\ tbl' = IF r.ok THEN r.rows ELSE tbl
        /\ ret' = [op |-> what, id |-> "", args |-> NoFields,
                   res |-> IF r.ok THEN SaveResult(saveOk) ELSE "invalid",
                   saves |-> IF r.ok THEN 1 ELSE 0]
        /\ idb' = IF r.ok /\ saveOk THEN RecExport(r.rows) ELSE idb
        /\ isDirty' = IF r.ok /\ saveOk THEN "false" ELSE isDirty
  /\ UNCHANGED << progRest, now, fnVars >>

RecSync(miniatures, saveOk) == RecSyncOutcome(miniatures, saveOk, "sync")

\* exportDatabaseAsJSON, then a synchronize against the exported document
\* (the store in between is empty: the replacement starts from none of the
\* rows)
RecRoundTrip ==
  /\ tbl # {}
  /\ RecSyncOutcome(exportDatabaseAsJSON(tbl), TRUE, "roundtrip")

RecNext ==
  \/ RecTick
  \/ \E m \in CreatePool, saveOk \in BOOLEAN : RecCreate(m, saveOk)
  \/ \E id \in Ids(tbl) \cup {"a"}, u \in RecUpdatePool, saveOk \in BOOLEAN :
       RecUpdate(id, u, saveOk)
  \/ \E id \in Ids(tbl), saveOk \in BOOLEAN : RecDelete(id, saveOk)
  \/ \E d \in RecDocs, saveOk \in BOOLEAN : RecSync(d, saveOk)
  \/ RecRoundTrip

RecSpec == RecInit /\ [][RecNext]_vars

\* The calls that work on many rows (deleteMiniatures,
\* importDatabaseFromJSON) are checked on the tables that creates, bulk
\* deletes and imports build, at one clock value.
BulkNext ==
  \/ \E m \in CreatePool, saveOk \in BOOLEAN : RecCreate(m, saveOk)
  \/ \E ids \in IdLists, saveOk \in BOOLEAN : RecDeleteMany(ids, saveOk)
  \/ \E input \in ImportInputs : \E failAt \in 0..(Len(input.items) + 1) :
       RecImport(input, failAt)

BulkSpec == RecInit /\ [][BulkNext]_vars

\* ---- pure functions: strings ----
\* A string is a sequence of one-character strings.

\* every string over alphabet of at most n characters
StringsUpTo(alphabet, n) == UNION { [1..k -> alphabet] : k \in 0..n }

\* String.prototype.toLowerCase, character by character
LowerChar(c) == IF c = "A" THEN "a" ELSE IF c = "B" THEN "b" ELSE c
toLowerCase(str) == [i \in 1..Len(str) |-> LowerChar(str[i])]

IsSpace(c) == c = " "

RECURSIVE TrimStart(_)
TrimStart(str) ==
  IF str # << >> /\ IsSpace(Head(str)) THEN TrimStart(Tail(str)) ELSE str

RECURSIVE TrimEnd(_)
TrimEnd(str) ==
  IF str # << >> /\ IsSpace(str[Len(str)])
    THEN TrimEnd(SubSeq(str, 1, Len(str) - 1))
    ELSE str

\* String.prototype.trim
trim(str) == TrimEnd(TrimStart(str))

\* str.split(separator) for a separator that is one character of seps;
\* with runs, a run of separators counts once (the regular expression [,;]+)
RECURSIVE SplitFrom(_, _, _, _, _)
SplitFrom(str, seps, runs, i, piece) ==
  IF i > Len(str) THEN << piece >>
  ELSE IF str[i] \in seps
    THEN IF runs /\ i > 1 /\ str[i - 1] \in seps
           THEN SplitFrom(str, seps, runs, i + 1, piece)
           ELSE << piece >> \o SplitFrom(str, seps, runs, i + 1, << >>)
    ELSE SplitFrom(str, seps, runs, i + 1, Append(piece, str[i]))

split(str, seps, runs) == SplitFrom(str, seps, runs, 1, << >>)

\* ---- pure functions: utils/keywords.ts ----

\* the characters an input of normalizeKeywords is made of
KeywordChars == { "a", "A", "!", " ", ",", ";", "-" }

\* [a-z0-9\s-]
IsTagChar(c) == c \in { "a", "b", " ", "-" }

\* p.replace(/[^a-z0-9\s-]/g, '')
StripOthers(str) == SelectSeq(str, IsTagChar)

\* p.replace(/\s+/g, ' ')
RECURSIVE CollapseSpaces(_)
CollapseSpaces(str) ==
  IF Len(str) < 2 THEN str
  ELSE IF IsSpace(str[1]) /\ IsSpace(str[2]) THEN CollapseSpaces(Tail(str))
  ELSE << str[1] >> \o CollapseSpaces(Tail(str))

\* a parseKeywords whose character class is case-insensitive and that
\* does not lower-case
CleanTag_KeepsCase(p) ==
  trim(CollapseSpaces(SelectSeq(trim(p), LAMBDA c : IsTagChar(LowerChar(c)))))

\* the body of the loop of parseKeywords up to the test for an empty tag
CleanTag(p) ==
  trim(CollapseSpaces(StripOthers(toLowerCase(trim(p)))))

\* the loop of parseKeywords: empty tags skipped, a tag seen before skipped
RECURSIVE ParseFrom(_, _, _)
ParseFrom(parts, i, out) ==
  IF i > Len(parts) THEN out
  ELSE LET p == CleanTag(parts[i])
       IN IF p = << >> \/ (\E j \in 1..Len(out) : out[j] = p)
            THEN ParseFrom(parts, i + 1, out)
            ELSE ParseFrom(parts, i + 1, Append(out, p))

parseKeywords(input) ==
  IF input = << >> THEN << >>
  ELSE ParseFrom(split(input, { ",", ";" }, TRUE), 1, << >>)

\* Array.prototype.join(', ')
RECURSIVE JoinFrom(_, _)
JoinFrom(tags, i) ==
  IF i > Len(tags) THEN << >>
  ELSE IF i = 1 THEN tags[1] \o JoinFrom(tags, 2)
  ELSE << ",", " " >> \o tags[i] \o JoinFrom(tags, i + 1)

normalizeKeywords(input) == JoinFrom(parseKeywords(input), 1)

\* ---- pure functions: getAllMiniatures(filters) ----

\* the characters filters.search is made of
SearchChars == { "a", "B", "_", ",", " " }

\* the table the query runs on (the columns the WHERE clause reads)
ListRows ==
  { [id |-> "1", keywords |-> << "a" >>, game |-> << >>, name |-> << >>, painted |-> FALSE],
    [id |-> "2", keywords |-> << >>, game |-> << "B" >>, name |-> << >>, painted |-> TRUE],
    [id |-> "3", keywords |-> << "a" >>, game |-> << "B" >>, name |-> << >>, painted |-> FALSE],
    [id |-> "4", keywords |-> << >>, game |-> << >>, name |-> << "a", "b" >>, painted |-> TRUE] }

\* filters: game and search are strings (the empty string and a missing
\* field are both falsy), painted is true, false or undefined
ListFilters ==
  [ game : { << >>, << "B" >>, << "b" >> },
    painted : { "undefined", "true", "false" },
    search : StringsUpTo(SearchChars, MaxSearchLen) ]

\* SQLite's str LIKE pattern from position i of str and j of pattern: %
\* matches any run of characters, _ any one character, any other character
\* itself without regard to ASCII case
RECURSIVE LikeFrom(_, _, _, _)
LikeFrom(str, i, pattern, j) ==
  IF j > Len(pattern) THEN i > Len(str)
  ELSE IF pattern[j] = "%"
    THEN LikeFrom(str, i, pattern, j + 1)
           \/ (i <= Len(str) /\ LikeFrom(str, i + 1, pattern, j))
  ELSE /\ i <= Len(str)
       /\ pattern[j] = "_" \/ LowerChar(pattern[j]) = LowerChar(str[i])
       /\ LikeFrom(str, i + 1, pattern, j + 1)

Like(str, pattern) == LikeFrom(str, 1, pattern, 1)

\* filters.search.toLowerCase().split(',').map(s => s.trim()).filter(s => s)
searchTerms(search) ==
  SelectSeq([i \in 1..Len(split(toLowerCase(search), {","}, FALSE)) |->
               trim(split(toLowerCase(search), {","}, FALSE)[i])],
            LAMBDA term : term # << >>)

\* (LOWER(keywords) LIKE ? OR LOWER(game) LIKE ? OR LOWER(name) LIKE ?) with
\* the parameter %term%
TermCondition(r, term) ==
  LET param == << "%" >> \o term \o << "%" >>
  IN \/ Like(toLowerCase(r.keywords), param)
     \/ Like(toLowerCase(r.game), param)
     \/ Like(toLowerCase(r.name), param)

\* the WHERE clause getAllMiniatures builds, on one row
Where(r, filters) ==
  /\ filters.game # << >> => r.game = filters.game
  /\ filters.painted # "undefined" => r.painted = (filters.painted = "true")
  /\ \A k \in 1..Len(searchTerms(filters.search)) :
       TermCondition(r, searchTerms(filters.search)[k])

\* getAllMiniatures(filters), as the set of rows returned
getAllMiniaturesWhere(rows, filters) == { r \in rows : Where(r, filters) }

\* ---- pure functions: the specification they are applied under ----

\* the calls whose result is checked
NormalizeCalls ==
  [fn : {"normalizeKeywords"}, input : StringsUpTo(KeywordChars, MaxKeywordsLen)]

ShapeCalls == [fn : {"shape"}, data : JsonData]

ListCalls == [fn : {"list"}, filters : ListFilters]

FnCalls == NormalizeCalls \cup ShapeCalls \cup ListCalls

FnInit ==
  /\ ProgramInit
  /\ tbl = {}
  /\ now = 0
  /\ ret = NoCall
  /\ fin \in FnCalls
  /\ fout = NoArgs

\* normalizeKeywords(input), and normalizeKeywords of what it returned
FnNormalize ==
  /\ fin.fn = "normalizeKeywords" /\ fout = NoArgs
  /\ fout' = [fn |-> "normalizeKeywords",
              once |-> normalizeKeywords(fin.input),
              twice |-> normalizeKeywords(normalizeKeywords(fin.input))]
  /\ UNCHANGED << progVars, recVars, fin >>

\* the shape check of handleLink and handleSync on the parsed response
FnShape ==
  /\ fin.fn = "shape" /\ fout = NoArgs
  /\ fout' = [fn |-> "shape", accepted |-> IsMiniaturesArray(fin.data)]
  /\ UNCHANGED << progVars, recVars, fin >>

\* getAllMiniatures(filters) on the table ListRows
FnList ==
  /\ fin.fn = "list" /\ fout = NoArgs
  /\ fout' = [fn |-> "list", rows |-> getAllMiniaturesWhere(ListRows, fin.filters)]
  /\ UNCHANGED << progVars, recVars, fin >>

FnNext ==
  \/ FnNormalize
  \/ FnShape
  \/ FnList

FnSpec == FnInit /\ [][FnNext]_vars

\* ---- properties ----

\* a step taken while the page stays loaded and initialized
InSession == initPc = "done" /\ initPc' = "done"

\* a step of handleSync, of handleLink, of the repository call in flight
SyncStep == InSession /\ syncPc' # syncPc
LinkStep == InSession /\ linkPc' # linkPc
OpSaveStep == InSession /\ opPc = "saving" /\ opPc' = "idle"

SyncErrors ==
  { "sync-error: fetch", "sync-error: no miniatures array",
    "sync-error: building temporary database" }

\* row r is what entry m is stored as: the entry's id when it has one, the
\* entry's name or '' when it has none
StoredAs(r, m) ==
  /\ ~Has(m, "isNull")
  /\ Has(m, "id") => r.id = m.id
  /\ r.name = (IF Has(m, "name") THEN m.name ELSE "")

\* rows holds exactly one row per entry of items
OneRowPerEntry(rows, items) ==
  /\ Cardinality(rows) = Len(items)
  /\ \A i \in 1..Len(items) : \E r \in rows : StoredAs(r, items[i])
  /\ \A r \in rows : \E i \in 1..Len(items) : StoredAs(r, items[i])

\* C1: a step of a link or synchronize attempt changes the live database or
\* the stored snapshot only after every entry of the fetched document is in
\* the throwaway database, and the live database it leaves holds the rows of
\* the throwaway database and nothing else (no mix with the rows before).
C1_LiveStoreUntouchedBeforeValidation ==
  [][ /\ (LinkStep => db' = db /\ idb' = idb)
      /\ (SyncStep /\ db' # db =>
            /\ syncPc = "replacing"
            /\ syncDoc.shape \in {"array", "miniatures"}
            /\ OneRowPerEntry(syncTmp.rows, syncDoc.items)
            /\ db'.rows = syncTmp.rows)
      /\ (SyncStep /\ idb' # idb =>
            /\ syncPc = "saving"
            /\ OneRowPerEntry(syncTmp.rows, syncDoc.items)
            /\ idb' = Export(db)) ]_vars

\* C1 witness: the live database was replaced by a validated two-entry
\* document while the stored snapshot still holds the rows from before
C1_Witness ==
  /\ syncPc = "saving"
  /\ Len(syncDoc.items) = 2
  /\ db.rows = syncTmp.rows
  /\ idb.kind = "db" /\ idb.rows # {}
  /\ idb.rows \cap db.rows = {}

\* C2: a synchronize attempt that fails in the fetch or the validation leaves
\* list() and the stored snapshot as they were, leaves the link as it was,
\* ends the attempt and shows an error; no earlier step of the attempt
\* changed the live database either.
C2_FailedSyncLeavesStore ==
  [][ /\ (SyncStep /\ syncPc \in {"idle", "confirm", "fetching"} =>
            /\ getAllMiniatures(db') = getAllMiniatures(db)
            /\ idb' = idb)
      /\ (SyncStep /\ syncPc = "fetching" /\ syncPc' = "idle" =>
            /\ toast' \in SyncErrors
            /\ ~syncing'
            /\ linked' = linked /\ syncUrlKey' = syncUrlKey /\ url' = url) ]_vars

\* C2 witness: an insertion failure was reported, the link and the records
\* are still there
C2_Witness ==
  /\ syncPc = "idle" /\ ~syncing
  /\ toast = "sync-error: building temporary database"
  /\ lastSave = "ok"
  /\ linked /\ syncUrlKey = "U"
  /\ db.rows # {} /\ idb = Export(db)

\* C3: the replacement leaves exactly one row per entry of the remote
\* document, missing fields defaulted, so a row from before survives only if
\* the document holds it; the successful end of the attempt leaves them.
C3_ReplacedWholesale ==
  [][ /\ (SyncStep /\ syncPc = "replacing" =>
            /\ OneRowPerEntry(db'.rows, syncDoc.items)
            /\ \A r \in db.rows \cap db'.rows :
                 \E i \in 1..Len(syncDoc.items) : StoredAs(r, syncDoc.items[i]))
      /\ (SyncStep /\ syncPc = "saving" => db' = db) ]_vars

\* C3 witness: a document with an entry without a name replaced a
\* database whose rows are all gone
C3_Witness ==
  /\ syncPc = "saving"
  /\ \E i \in 1..Len(syncDoc.items) : ~Has(syncDoc.items[i], "name")
  /\ \E r \in db.rows : r.name = ""
  /\ idb.kind = "db" /\ idb.rows # {}
  /\ \A r \in idb.rows : r \notin db.rows

\* C4: with isDirty set at the click, handleSync fetches and replaces only
\* after Confirm was pressed in that attempt; on Cancel nothing is fetched
\* and the live database, the snapshot, isDirty and the link are unchanged.
C4_ConfirmBeforeReplace ==
  [][ /\ (SyncStep /\ syncPc = "idle" /\ isDirty = "true" => syncPc' \in {"confirm"})
      /\ (SyncStep /\ syncPc' \in {"fetching", "replacing", "saving"}
            /\ dirtyAtSync' = "true" => confirmed')
      /\ (SyncStep /\ db' # db /\ dirtyAtSync = "true" => confirmed)
      /\ (SyncStep /\ syncPc = "confirm" /\ syncPc' = "idle" =>
            /\ db' = db /\ idb' = idb /\ isDirty' = isDirty
            /\ linked' = linked /\ syncUrlKey' = syncUrlKey /\ url' = url
            /\ ~syncing') ]_vars

\* C4 witness: the database was replaced in an attempt that found isDirty
\* set and was confirmed
C4_Witness ==
  /\ syncPc = "saving"
  /\ dirtyAtSync = "true"
  /\ confirmed
  /\ db.rows = syncTmp.rows

\* C5: every create, update, delete and bulk delete that changed the store
\* and ended successfully leaves isDirty true (a bulk delete of no ids
\* returns before it touches the store and is no mutation); a successful
\* synchronize leaves isDirty false.
C5_DirtyAfterSavingCall ==
  [][ /\ (OpSaveStep /\ opResult' = "ok" => isDirty' = "true")
      /\ (SyncStep /\ syncPc = "saving" /\ toast' = "sync-ok" => isDirty' = "false") ]_vars

\* C5 witness: a synchronize succeeded (which cleared the flag) and a
\* repository call that ended successfully after it set the flag again
C5_Witness ==
  /\ opPc = "idle" /\ opResult = "ok" /\ lastSave = "ok"
  /\ toast = "sync-ok"
  /\ syncPc = "idle"
  /\ idb = Export(db)
  /\ isDirty = "true"

\* C6 as stated: after a corrupt blob was loaded, initDatabase returns with
\* an empty database and the corrupt blob is no longer stored.
C6_CorruptBlobDiscarded ==
  [][ /\ (savedDb'.kind = "corrupt" => initPc' # "failed")
      /\ (initPc = "save" /\ initPc' = "done" /\ savedDb.kind = "corrupt" =>
            /\ db' = FreshDb
            /\ idb'.kind # "corrupt") ]_vars

\* C6 amended: after a corrupt blob was loaded, initDatabase returns with an
\* empty database the repository can use, and throws only when the schema
\* could not be created on a new database either; the stored blob is then
\* the export of that empty database, or, when the final save failed, what
\* the clear left (nothing, or still the corrupt blob when the clear failed
\* or was not tried).
C6_CorruptBlobRecovered ==
  [][ /\ (savedDb'.kind = "corrupt" /\ initPc' = "failed" => ensureThrows' = 2)
      /\ (initPc = "clear" /\ initPc' # initPc => idb' \in {NoSnapshot, idb})
      /\ (initPc = "save" /\ initPc' = "done" /\ savedDb.kind = "corrupt" =>
            /\ db' = FreshDb
            /\ Ready'
            /\ idb' \in {Export(FreshDb), idb}) ]_vars

\* C6 witness: a corrupt blob was loaded, initDatabase returned, the
\* database is empty and the stored blob is its export
C6_Witness ==
  /\ initPc = "done"
  /\ savedDb.kind = "corrupt"
  /\ db = FreshDb
  /\ idb = Export(FreshDb)
  /\ acts >= 1

\* C7: the URL is persisted and linked is set only by the step that follows
\* a full trial insertion of every entry of a document holding an array;
\* an attempt that ends from the fetch ends unlinked with no URL stored.
C7_LinkOnlyAfterFullValidation ==
  [][ /\ (InSession /\ ((linked' /\ ~linked) \/ syncUrlKey' \notin {syncUrlKey, ""}) =>
            /\ linkPc = "inserted"
            /\ linkDoc.shape \in {"array", "miniatures"}
            /\ OneRowPerEntry(linkTmp.rows, linkDoc.items)
            /\ linked' /\ syncUrlKey' = linkUrl /\ linkUrl # "")
      /\ (LinkStep /\ linkPc = "fetching" /\ linkPc' = "idle" =>
            /\ ~linked' /\ syncUrlKey' = ""
            /\ ~linking'
            /\ error' # "") ]_vars

\* C7 witness: a link attempt ended linked with the URL stored
C7_Witness ==
  /\ linkPc = "idle"
  /\ toast = "link-ok"
  /\ linked /\ syncUrlKey = "U"
  /\ ~linking

\* C8: Remove Link removes the stored URL and unsets linked and leaves the
\* live database, the stored snapshot and isDirty as they were.
C8_UnlinkKeepsStore ==
  [][ InSession /\ linked /\ ~linked' =>
        /\ syncUrlKey' = "" /\ url' = ""
        /\ db' = db /\ idb' = idb /\ isDirty' = isDirty ]_vars

\* C8 witness: the link was removed and the records, the snapshot and the
\* set flag are still there
C8_Witness ==
  /\ toast = "link-removed"
  /\ ~linked /\ syncUrlKey = ""
  /\ db.rows # {} /\ idb = Export(db)
  /\ isDirty = "true"

\* C9: when the save of a create, update or delete fails, the mutation stays
\* in the live database and the call is not reported to the caller as failed.
C9_SaveFailureNotReported ==
  [][ OpSaveStep /\ lastSave' = "failed" =>
        /\ db' = db
        /\ opResult' # "failed" ]_vars

\* Once a saving call ended successfully and nothing is in flight, the stored
\* snapshot is the export of the live database.
SnapshotCurrent ==
  Ready /\ Quiescent /\ lastSave = "ok" => idb = Export(db)

\* C10: after successful calls the stored snapshot is the export of the live
\* database, and an initDatabase after a reload returns with the list() the
\* store had before the reload.
C10_ReinitializeRestoresList ==
  [][ /\ SnapshotCurrent'
      /\ (initPc = "save" /\ initPc' = "done" /\ listBefore.valid =>
            getAllMiniatures(db') = listBefore.rows) ]_vars

\* a repository call on the full rows
RecStep(op) == acts' = acts + 1 /\ ret'.op = op

\* C11: initDatabase sees "no snapshot" only when none is stored: a read
\* error of IndexedDB does not reach it as "none" and does not start a first
\* run.
C11_ReadErrorNotFirstRun ==
  [][ initPc = "load" /\ initPc' # "load" /\ savedDb'.kind = "none" =>
        idb.kind = "none" ]_vars

\* C12: no two rows share an id, whatever calls were made; a create whose id
\* is already there fails and leaves the table as it was, and any other
\* create adds its id.
C12_UniqueIds ==
  [][ /\ \A r1, r2 \in tbl' : r1.id = r2.id => r1 = r2
      /\ (RecStep("create") /\ ret'.id \in Ids(tbl) =>
            tbl' = tbl /\ ret'.res = "constraint")
      /\ (RecStep("create") /\ ret'.id \notin Ids(tbl) =>
            Ids(tbl') = Ids(tbl) \cup { ret'.id } /\ ret'.res # "constraint") ]_vars

\* C12 witness: a create with the id of a row that had been updated failed
\* and the row is still the updated one, next to a second row
C12_Witness ==
  /\ ret.op = "create" /\ ret.res = "constraint"
  /\ \E r \in tbl : r.id = ret.id /\ r.name = "m"

\* C13: every update of a row that is there leaves its updated_at strictly
\* greater than before, also the second of two updates made at once and an
\* update of a row whose timestamps came from a document.
C13_UpdateStrictlyLater ==
  [][ RecStep("update") =>
        \A r \in tbl, r2 \in tbl' :
          r.id = ret'.id /\ r2.id = r.id => r2.updated_at > r.updated_at ]_vars

\* C14: every row has updated_at >= created_at, whatever create, update and
\* synchronize made it.
C14_UpdatedNotBeforeCreated ==
  \A r \in tbl : r.updated_at >= r.created_at

\* the columns updateMiniature can be given
Settable == { "game", "name", "amount", "painted", "keywords", "embedding", "image_data" }
Columns == Settable \cup { "id", "created_at", "updated_at" }

\* C16: update(id, fields) leaves every other row as it was and the number of
\* rows; in the row with that id, id and created_at stay, each supplied
\* column takes the supplied value, each other column keeps its value, and
\* updated_at is the clock's value, also when no column is supplied.
C16_UpdateTouchesSuppliedOnly ==
  [][ RecStep("update") =>
        /\ Ids(tbl') = Ids(tbl) /\ Cardinality(tbl') = Cardinality(tbl)
        /\ \A r \in tbl : r.id # ret'.id => r \in tbl'
        /\ \A r \in tbl, r2 \in tbl' : r.id = ret'.id /\ r2.id = r.id =>
             /\ r2.created_at = r.created_at
             /\ r2.updated_at = now
             /\ \A c \in Settable :
                  r2[c] = IF Has(ret'.args, c) THEN ret'.args[c] ELSE r[c] ]_vars

\* C16 witness: an update with no column on a row made earlier with every
\* column: the columns are as created, updated_at moved on
C16_Witness ==
  /\ ret.op = "update" /\ ret.args = NoFields
  /\ \E r \in tbl :
       /\ r.id = ret.id
       /\ r.game = "g" /\ r.amount = 2 /\ r.painted
       /\ r.updated_at > r.created_at

\* C17: a create whose id is not there adds exactly one row: its id is the
\* supplied one or a fresh one, missing game, name, keywords are '', missing
\* amount is 1, missing painted is false, created_at = updated_at = now; the
\* INSERT fails only on a supplied id that is there, never on a missing
\* field; the call that resolves returns that id.
C17_CreateFillsDefaults ==
  [][ RecStep("create") =>
        LET m == ret'.args
        IN /\ Has(m, "id") => ret'.id = m.id
           /\ ~Has(m, "id") => ret'.id \notin Ids(tbl)
           /\ ret'.res = "constraint" <=> ret'.id \in Ids(tbl)
           /\ ret'.res # "constraint" =>
                \E r \in tbl' :
                  /\ r \notin tbl /\ tbl' = tbl \cup {r}
                  /\ r.id = ret'.id
                  /\ \A c \in {"game", "name", "keywords"} :
                       r[c] = IF Has(m, c) THEN m[c] ELSE ""
                  /\ ~Has(m, "amount") => r.amount = 1
                  /\ Has(m, "amount") /\ m.amount >= 1 => r.amount = m.amount
                  /\ r.painted = (Has(m, "painted") /\ m.painted)
                  /\ r.created_at = now /\ r.updated_at = now ]_vars

\* C17 witness: a create without id, game, keywords, painted resolved: the
\* row has the generated id and the defaults
C17_Witness ==
  /\ ret.op = "create" /\ ret.res = "ok"
  /\ ~Has(ret.args, "id") /\ ~Has(ret.args, "game")
  /\ \E r \in tbl :
       /\ r.id = ret.id
       /\ r.game = "" /\ r.keywords = "" /\ ~r.painted /\ r.amount = 1
       /\ r.created_at = r.updated_at

\* the fields of a record that a caller of the repository supplies or reads
\* back (embedding is written by no create and no import)
RecordFields == { "id", "game", "name", "amount", "painted", "keywords",
                  "image_data", "created_at", "updated_at" }

TagsOf(str) ==
  LET pieces == split(str, {","}, FALSE)
  IN [i \in 1..Len(pieces) |->
        IF i > 1 /\ pieces[i] # << >> /\ pieces[i][1] = " "
          THEN Tail(pieces[i]) ELSE pieces[i]]

\* str is in canonical form: empty, or tags joined by ", ", each tag
\* non-empty, lower-case letters, digits, blanks and hyphens only, no blank
\* at either end, no tag twice
Canonical(str) ==
  \/ str = << >>
  \/ LET tags == TagsOf(str)
     IN /\ \A i \in 1..Len(tags) :
             /\ tags[i] # << >>
             /\ \A k \in 1..Len(tags[i]) : tags[i][k] \in { "a", "b", " ", "-" }
             /\ tags[i][1] # " " /\ tags[i][Len(tags[i])] # " "
        /\ \A i, j \in 1..Len(tags) : tags[i] = tags[j] => i = j
        /\ \A i \in 1..Len(str) : str[i] = "," => i < Len(str) /\ str[i + 1] = " "

\* C20: normalizeKeywords returns the canonical form, and normalizing what
\* it returned returns the same.
C20_NormalizeIdempotent ==
  fout.fn = "normalizeKeywords" =>
    /\ Canonical(fout.once)
    /\ fout.twice = fout.once

\* C20 witness: an input with a repeated tag in another case, a stripped
\* character and an empty tag came out as one tag
C20_Witness ==
  /\ fout.fn = "normalizeKeywords"
  /\ fin.input = << "a", ";", "A", "!" >>
  /\ fout.once = << "a" >>

\* the parsed value is an object whose field k holds an array
FieldIsArray(data, k) ==
  data.t = "object" /\ k \in DOMAIN data.fields /\ data.fields[k] = "array"

\* C18 as stated: the shape check passes exactly when the document is a
\* bare array or an object whose records field or whose miniatures field is
\* an array.
C18_AcceptsRecordsOrMiniatures ==
  fout.fn = "shape" =>
    (fout.accepted <=>
       \/ fin.data.t = "array"
       \/ FieldIsArray(fin.data, "records")
       \/ FieldIsArray(fin.data, "miniatures"))

\* C18 amended: the shape check passes exactly when the document is a bare
\* array or an object whose miniatures field is an array; a records field
\* is not looked at.
C18_AcceptsArrayOrMiniatures ==
  fout.fn = "shape" =>
    (fout.accepted <=>
       \/ fin.data.t = "array"
       \/ FieldIsArray(fin.data, "miniatures"))

\* C18 witness: an object with a records array and a miniatures field that
\* is no array was rejected
C18_Witness ==
  /\ fout.fn = "shape" /\ ~fout.accepted
  /\ FieldIsArray(fin.data, "records")
  /\ Has(fin.data.fields, "miniatures")

\* term is a substring of str, without regard to case
ContainsNoCase(str, term) ==
  \E k \in 0..(Len(str) - Len(term)) :
    \A i \in 1..Len(term) : LowerChar(str[k + i]) = LowerChar(term[i])

\* the non-empty comma-separated terms of search, blanks around them dropped
TermsOf(search) ==
  { trim(split(search, {","}, FALSE)[i]) : i \in 1..Len(split(search, {","}, FALSE)) }
    \ { << >> }

\* row r satisfies all supplied filters together
Satisfies(r, filters) ==
  /\ filters.game # << >> => r.game = filters.game
  /\ filters.painted = "true" => r.painted
  /\ filters.painted = "false" => ~r.painted
  /\ \A term \in TermsOf(filters.search) :
       \/ ContainsNoCase(r.keywords, term)
       \/ ContainsNoCase(r.game, term)
       \/ ContainsNoCase(r.name, term)

\* C15: list(filters) returns exactly the rows that satisfy all supplied
\* filters together: game equal to the game filter, painted equal to the
\* painted filter, and every non-empty comma-separated term of search a
\* case-insensitive substring of keywords, game or name.
C15_ListReturnsMatches ==
  fout.fn = "list" =>
    fout.rows = { r \in ListRows : Satisfies(r, fin.filters) }

\* the step of initDatabase that runs the schema block
SchemaStep == initPc \in {"load", "clear"} /\ initPc' \notin {"load", "clear"}

\* C21: when ensureSchema throws, initDatabase makes one more attempt on a
\* new database and no third: it throws exactly when that attempt throws
\* too, and stays failed until the page is reloaded; when the attempt
\* succeeds it goes on to its save and returns with an empty database the
\* handlers can use.
C21_SchemaRetriedOnce ==
  [][ /\ (SchemaStep =>
            /\ ensureThrows' \in 0..2
            /\ (initPc' = "failed") = (ensureThrows' = 2)
            /\ (ensureThrows' = 1 => initPc' = "save" /\ db' = FreshDb))
      /\ (initPc = "save" /\ ensureThrows = 1 /\ initPc' # "save" =>
            initPc' = "done" /\ db' = FreshDb /\ Ready')
      /\ (initPc = "failed" /\ initPc' # "failed" =>
            initPc' = "start" /\ acts' = acts + 1) ]_vars

\* C21 witness: the stored blob was loaded, ensureSchema threw on it, the
\* attempt on a new database succeeded and initDatabase is at its save
C21_Witness ==
  /\ initPc = "save"
  /\ savedDb.kind = "corrupt"
  /\ ensureThrows = 1
  /\ db = FreshDb

ReplaceStep == InSession /\ syncPc = "replacing" /\ syncPc' = "saving"

\* C23: the live database is not replaced over a mutation that completed
\* after the attempt went on to its fetch (after the isDirty check and, when
\* there was one, after the confirm dialog): when the rows differ from the
\* rows of that moment and the last repository call saved them
\* successfully, no replacement happens.
C23_NoUnconfirmedLoss ==
  [][ ReplaceStep /\ opPc = "idle" /\ opResult = "ok" /\ idb = Export(db) =>
        getAllMiniatures(db) = syncBase.rows ]_vars

\* an attempt ends in one of its catch blocks
SyncFailStep ==
  /\ InSession
  /\ syncPc \in {"fetching", "saving"} /\ syncPc' = "idle"
  /\ toast' \in SyncErrors

\* C24: when an attempt fails at any step, the save inside
\* replaceDatabaseWith included, and no other handler was started since it
\* went on to its fetch, the live database holds the rows it held then, and
\* a snapshot that was their export is the export of the live database.
C24_FailedSyncRestoresStore ==
  [][ SyncFailStep /\ acts = syncBase.acts =>
        /\ getAllMiniatures(db') = syncBase.rows
        /\ (idb' = Export([open |-> TRUE, rows |-> syncBase.rows]) => idb' = Export(db')) ]_vars

\* the rows initDatabase returned with: those of the snapshot it loaded, or
\* none
RowsAtInit == IF savedDb.kind = "db" THEN savedDb.rows ELSE EmptyRows

\* C25: with no call, link or synchronize attempt in flight and isDirty not
\* "true", the live database holds the rows installed by the synchronize that
\* cleared the flag, or the rows initDatabase returned with.
C25_CleanMeansSyncedOrUntouched ==
  Ready /\ Quiescent /\ isDirty # "true" =>
    \/ synced.valid /\ getAllMiniatures(db) = synced.rows
    \/ getAllMiniatures(db) = RowsAtInit

\* a step of initDatabase after the engine is loaded
InitStep == initPc \in {"load", "clear", "save"} /\ initPc' # initPc

\* C26: initDatabase changes or removes a stored snapshot only after it
\* loaded that snapshot and found it corrupt; after a read error the stored
\* snapshot is what it was.
C26_SnapshotKeptUnlessCorrupt ==
  [][ InitStep /\ idb.kind # "none" /\ idb' # idb => savedDb.kind = "corrupt" ]_vars

\* C27: handleSync replaces the live database only while the URL is linked:
\* after Remove Link, an attempt still in flight does not replace it.
C27_ReplaceOnlyWhileLinked ==
  [][ ReplaceStep => linked /\ syncUrlKey # "" ]_vars

\* the elements of an array
Elements(seq) == { seq[i] : i \in 1..Len(seq) }

\* C28: deleteMiniatures(ids) with an empty array changes neither the table,
\* the snapshot nor isDirty and saves nothing; when deleting an id throws,
\* the table is what it was and nothing is saved; otherwise exactly the rows
\* whose id is in ids are gone, every other row is as it was, and
\* saveDatabase ran once: when it succeeded the snapshot is the export of
\* the table and isDirty is set.
C28_BulkDeleteAllOrNothing ==
  [][ RecStep("deleteMany") =>
        LET ids == ret'.args
        IN /\ (ret'.res = "noop") = (Len(ids) = 0)
           /\ (ret'.res = "rolled-back") = (BadId \in Elements(ids))
           /\ (ret'.res \in {"noop", "rolled-back"} =>
                 tbl' = tbl /\ idb' = idb /\ isDirty' = isDirty /\ ret'.saves = 0)
           /\ (ret'.res \in {"ok", "save-failed"} =>
                 /\ tbl' = { r \in tbl : r.id \notin Elements(ids) }
                 /\ ret'.saves = 1)
           /\ (ret'.res = "ok" => idb' = RecExport(tbl') /\ isDirty' = "true")
           /\ ret'.res \in {"noop", "rolled-back", "ok", "save-failed"} ]_vars

\* C28 witness: a bulk delete whose second id could not be deleted was
\* rolled back, and the row of its first id is still there
C28_Witness ==
  /\ ret.op = "deleteMany"
  /\ ret.res = "rolled-back"
  /\ Len(ret.args) = 2
  /\ ret.args[1] \in Ids(tbl)

\* C29: a call of importDatabaseFromJSON that fails in JSON.parse or in the
\* insertion of an entry leaves the table and the snapshot holding the rows
\* they held before the call.
C29_ImportAllOrNothing ==
  [][ RecStep("import") /\ ret'.res \in {"invalid", "constraint"} =>
        tbl' = tbl /\ idb' = idb ]_vars

\* C30: every link or synchronize attempt eventually ends: once the
\* in-progress flag of handleLink or of handleSync is set it is cleared
\* again, also when the remote source stops answering.
C30_AttemptsEnd == (syncing ~> ~syncing) /\ (linking ~> ~linking)

\* the part of C30 that the timer does carry: an attempt whose fetch has not
\* received anything from the remote source ends
TimedFetchEnds ==
  /\ (syncing /\ syncTimer) ~> (~syncing \/ ~syncTimer)
  /\ (linking /\ linkTimer) ~> (~linking \/ ~linkTimer)

====
